---- MODULE Spec2Model ----
(***************************************************************************)
(* Model of the attestation verification backend (src/backend):            *)
(*   main.py                    the /verify endpoint (verify_endpoint)     *)
(*   utils_crypto.py            sha256_bytes, decode_b64, signature check  *)
(*   utils_x509_attestation.py  chain loading, chain validation,           *)
(*                              attestation parsing, enforce_policy        *)
(*   features.py                featurize, the features of an edit log     *)
(*   serve.py                   _rule_score_and_reasons, the rule points   *)
(*                                                                         *)
(* Byte strings are sequences of naturals.  Python's None is the value     *)
(* with some = FALSE of an option record.  A Python call that raises is a  *)
(* result record with raised = TRUE.                                       *)
(***************************************************************************)
EXTENDS Integers, Sequences, FiniteSets, TLC

VARIABLES
    config,       \* main.py:12  the configuration loaded when the module is imported
    trustStore,   \* the file at TRUST_STORE_FILE (main.py:14), as it is on disk now
    pc,           \* per request slot: "idle" | "await_media" | "done"
    input,        \* per request slot: the form fields and the upload of the request
    steps,        \* per request slot: the checks verify_endpoint has entered, in order
    verdict,      \* per request slot: the HTTP response of the request
    polIn,        \* arguments of one direct call of enforce_policy
    polOut,       \* the result of that call
    featIn,       \* features.py: the edit log handed to one call of featurize
    featOut,      \* the feature dict that call returned
    ruleOut,      \* serve.py: what one call of _rule_score_and_reasons on featIn returned
    extIn,        \* the certificate handed to one call of extract_key_description_from_cert
    extOut        \* what that call returned or raised

vars ==
    <<config, trustStore, pc, input, steps, verdict, polIn, polOut, featIn, featOut, ruleOut,
      extIn, extOut>>

----------------------------------------------------------------------------
(* Bounds of the model.                                                    *)

\* attestationSecurityLevel ranges over 0..MaxLevel (0 software, 1 TEE, 2 StrongBox)
MaxLevel == 2
\* challenge / nonce byte strings are <<>> and <<n>> for n in 1..MaxNonce
MaxNonce == 2
\* a request differs from the well-formed request in at most MaxDeviations fields
MaxDeviations == 2
\* number of requests in flight at once in the concurrent specification
MaxInFlight == 2

----------------------------------------------------------------------------
(* Python values.                                                          *)

NoneBytes == [some |-> FALSE, v |-> <<>>]
SomeBytes(b) == [some |-> TRUE, v |-> b]
NoneInt == [some |-> FALSE, v |-> 0]
SomeInt(n) == [some |-> TRUE, v |-> n]
NoneStr == [some |-> FALSE, v |-> ""]
SomeStr(s) == [some |-> TRUE, v |-> s]
NoneBool == [some |-> FALSE, v |-> FALSE]
SomeBool(b) == [some |-> TRUE, v |-> b]

\* A JSON string field holding base64 text, or the field missing from the object
\* (dict.get gives None).  form: "canon" the canonical encoding of `of`;
\* "junk" the same with ASCII characters outside the alphabet mixed in;
\* "badpad" text whose padding is incorrect; "nonascii" text holding a
\* character that is not ASCII.
AbsentField == [kind |-> "absent", form |-> "canon", of |-> <<>>]
B64Text(form, bytes) == [kind |-> "str", form |-> form, of |-> bytes]
EmptyText == B64Text("canon", <<>>)
BadPadText == B64Text("badpad", <<>>)
NonAsciiText == B64Text("nonascii", <<1>>)

\* base64.b64decode(s) of a str, validate left False: a non-ASCII character
\* raises ValueError, incorrect padding raises binascii.Error, ASCII characters
\* outside the alphabet are discarded.
B64Raises(form) == form \in {"badpad", "nonascii"}
B64Error(form) ==
    CASE form = "nonascii" -> "ValueError"
      [] form = "badpad" -> "binascii.Error"
      [] OTHER -> ""

\* Python truthiness of dict.get(key): None and "" are falsy.
Truthy(field) == field.kind = "str" /\ field # EmptyText

\* utils_crypto.py:12-13: [raised, exc, v]
decode_b64(text) ==
    IF B64Raises(text.form)
    THEN [raised |-> TRUE, exc |-> B64Error(text.form), v |-> <<>>]
    ELSE [raised |-> FALSE, exc |-> "", v |-> text.of]

\* utils_crypto.py:9  hashlib.sha256(data).digest(): an injective digest, never
\* equal to its input (256 is no byte value).
sha256_bytes(data) == <<256>> \o data

----------------------------------------------------------------------------
(* enforce_policy (utils_x509_attestation.py:114-138).                     *)

PolicyReturn(ok, msg) == [raised |-> FALSE, ok |-> ok, msg |-> msg]
PolicyRaise(exc) == [raised |-> TRUE, ok |-> FALSE, msg |-> exc]

\* Mutant of RequireHardwareBacked: the flag defaults to False.
RequireHardwareBacked_DefaultFalse(cfg) ==
    cfg.require_hardware_backed.some /\ cfg.require_hardware_backed.v

\* config.get("require_hardware_backed", True)
RequireHardwareBacked(cfg) ==
    IF cfg.require_hardware_backed.some THEN cfg.require_hardware_backed.v ELSE TRUE

\* attestation_dict.get("attestationSecurityLevel", 0)
SecurityLevel(att) ==
    IF att.attestationSecurityLevel.some THEN att.attestationSecurityLevel.v ELSE 0

\* Mutant of HardwareRuleFails: the comparison is off by one, so a TEE-backed
\* key (level 1) is refused as well.
HardwareRuleFails_OffByOne(att, cfg) ==
    RequireHardwareBacked(cfg) /\ SecurityLevel(att) <= 1

\* rule (a), lines 115-120
HardwareRuleFails(att, cfg) ==
    RequireHardwareBacked(cfg) /\ SecurityLevel(att) = 0

\* rule (b), lines 121-128: [raised, fails]
ChallengeRule(att, payload) ==
    IF ~Truthy(payload.nonce_b64)
    THEN [raised |-> FALSE, fails |-> FALSE]
    ELSE LET expected == decode_b64(payload.nonce_b64)
         IN  IF expected.raised
             THEN [raised |-> TRUE, fails |-> FALSE]
             ELSE [raised |-> FALSE,
                   fails |-> att.attestationChallenge # SomeBytes(expected.v)]

\* rule (c), lines 129-132
AppIdRuleFails(payload, cfg) ==
    payload.app_id # cfg.expected_app_id

\* rule (d), lines 133-137: the body of the branch is `pass`; the rule changes
\* neither the result nor the message.
PatchLevelBranchTaken(cfg) ==
    cfg.min_patch_level.some /\ cfg.min_patch_level.v # 0

enforce_policy(att, payload, cfg) ==
    IF HardwareRuleFails(att, cfg)
    THEN PolicyReturn(FALSE, "Not hardware backed (attestationSecurityLevel indicates software)")
    ELSE LET b == ChallengeRule(att, payload)
         IN  IF b.raised THEN PolicyRaise(B64Error(payload.nonce_b64.form))
             ELSE IF b.fails
             THEN PolicyReturn(FALSE, "attestation challenge does not match payload nonce")
             ELSE IF AppIdRuleFails(payload, cfg)
             THEN PolicyReturn(FALSE, "payload.app_id does not match expected app id")
             ELSE IF PatchLevelBranchTaken(cfg)
             THEN PolicyReturn(TRUE, "policy OK")
             ELSE PolicyReturn(TRUE, "policy OK")

----------------------------------------------------------------------------
(* Certificates, signatures, the trust store.                              *)

\* The attestation extension of a certificate: absent, present but not a
\* decodable KeyDescription, or a KeyDescription with its level and challenge.
NoExtension == [state |-> "missing", level |-> 0, challenge |-> <<>>]
BadExtension == [state |-> "malformed", level |-> 0, challenge |-> <<>>]
KeyDescriptionExt(level, challenge) ==
    [state |-> "ok", level |-> level, challenge |-> challenge]

\* A parsed X.509 certificate.  id names the subject and its key, issuer the
\* subject whose key signed it, linkok is whether that signature verifies and
\* the validity interval covers now, alg is the family of its public key.
Certificate(id, issuer, linkok, alg, ext) ==
    [id |-> id, issuer |-> issuer, linkok |-> linkok, alg |-> alg, ext |-> ext]

\* One entry of the x5c list: base64 text of DER bytes.
X5cEntry(form, parses, cert) == [form |-> form, parses |-> parses, cert |-> cert]

\* payload_canonical.encode("utf-8"), main.py:25
Utf8(text) == [encoding |-> "utf-8", chars |-> text]

\* Signature bytes: which key made them, over which bytes.
Signature(signer, over) == [signer |-> signer, over |-> over]

\* utils_x509_attestation.py:59-65: [raised, exc, certs]
RECURSIVE load_cert_chain_from_b64_list(_)
load_cert_chain_from_b64_list(x5c_b64_list) ==
    IF x5c_b64_list = <<>>
    THEN [raised |-> FALSE, exc |-> "", certs |-> <<>>]
    ELSE LET b64 == Head(x5c_b64_list)
         IN  IF B64Raises(b64.form)
             THEN [raised |-> TRUE, exc |-> B64Error(b64.form), certs |-> <<>>]
             ELSE IF ~b64.parses
             THEN [raised |-> TRUE, exc |-> "ValueError", certs |-> <<>>]
             ELSE LET rest == load_cert_chain_from_b64_list(Tail(x5c_b64_list))
                  IN  IF rest.raised
                      THEN rest
                      ELSE [raised |-> FALSE, exc |-> "",
                            certs |-> <<b64.cert>> \o rest.certs]

\* leaf_cert.public_key(), main.py:42: raises UnsupportedAlgorithm for a key type
\* the library cannot load.
PublicKeyRaises(cert) == cert.alg = "unsupported"
public_key(cert) == [alg |-> cert.alg, id |-> cert.id]

\* utils_crypto.py:15-32
verify_signature_with_pubkey(pubkey, payload_bytes, sig_bytes) ==
    IF pubkey.alg = "EC" \/ pubkey.alg = "RSA"
    THEN sig_bytes.signer = pubkey.id /\ sig_bytes.over = payload_bytes
    ELSE FALSE

\* The trust-store file: missing, not JSON, or a JSON list of PEM strings, each
\* of which parses to a root certificate id or does not parse.
MissingFile == [state |-> "missing", pems |-> <<>>]
NotJsonFile == [state |-> "invalid_json", pems |-> <<>>]
PemListFile(pems) == [state |-> "ok", pems |-> pems]
Pem(id) == [parses |-> TRUE, id |-> id]
BadPem == [parses |-> FALSE, id |-> ""]

\* utils_x509_attestation.py:72-78: open, json.load, load_pem_x509_certificate
\* for every entry.  [raised, exc, roots]
load_trust_roots(file) ==
    IF file.state = "missing"
    THEN [raised |-> TRUE, exc |-> "FileNotFoundError", roots |-> {}]
    ELSE IF file.state = "invalid_json"
    THEN [raised |-> TRUE, exc |-> "JSONDecodeError", roots |-> {}]
    ELSE IF \E i \in 1..Len(file.pems) : ~file.pems[i].parses
    THEN [raised |-> TRUE, exc |-> "ValueError", roots |-> {}]
    ELSE [raised |-> FALSE, exc |-> "",
          roots |-> {file.pems[i].id : i \in 1..Len(file.pems)}]

\* CertificateValidator(leaf, intermediate_certs, ctx).validate_usage(set()),
\* utils_x509_attestation.py:85-87: the validator builds a path from the leaf to a
\* trust root out of the pool of intermediates, in any order; every link on the
\* path must verify.  fuel bounds the path length by the size of the pool.
RECURSIVE PathToRoot(_, _, _, _)
PathToRoot(cert, pool, roots, fuel) ==
    \/ cert.id \in roots
    \/ /\ cert.linkok
       /\ \/ cert.issuer \in roots
          \/ /\ fuel > 0
             /\ \E p \in pool :
                   /\ p.id = cert.issuer
                   /\ p.id # cert.id
                   /\ PathToRoot(p, pool, roots, fuel - 1)

\* utils_x509_attestation.py:80, ValidationContext(trust_roots=trust_roots,
\* crl_fetcher=None): the constructor of certvalidator has no parameter
\* crl_fetcher, so the call raises TypeError.  The line is outside the try of
\* l.84.  [raised, exc, roots]
ValidationContext(trust_roots) ==
    [raised |-> TRUE, exc |-> "TypeError", roots |-> trust_roots]

\* utils_x509_attestation.py:67-89: [raised, exc, ok, msg]
validate_chain_against_roots(chain, file) ==
    LET loaded == load_trust_roots(file)
        ctx == ValidationContext(loaded.roots)
    IN  IF loaded.raised
        THEN [raised |-> TRUE, exc |-> loaded.exc, ok |-> FALSE, msg |-> ""]
        ELSE IF ctx.raised
        THEN [raised |-> TRUE, exc |-> ctx.exc, ok |-> FALSE, msg |-> ""]
        ELSE LET leaf == chain[1]
                 intermediates == {chain[i] : i \in 2..Len(chain)}
                 valid == PathToRoot(leaf, intermediates, ctx.roots, Len(chain))
             IN  [raised |-> FALSE, exc |-> "", ok |-> valid,
                  msg |-> IF valid THEN "chain valid" ELSE "chain validation failed"]

\* The attestation record handed to the policy engine.
AttestationDict(level, challenge) ==
    [attestationSecurityLevel |-> level, attestationChallenge |-> challenge]

\* The keys of the dict extract_key_description_from_cert builds,
\* utils_x509_attestation.py:105-109.
KeyDescriptionKeys ==
    {"attestationVersion", "attestationSecurityLevel", "attestationChallenge"}

\* utils_x509_attestation.py:91-112: [raised, exc, att, keys]; exc is the text
\* of the exception (ExtensionNotFound is turned into a ValueError at l.97, a
\* DER decoding failure is pyasn1's own error).
extract_key_description_from_cert(cert) ==
    IF cert.ext.state = "missing"
    THEN [raised |-> TRUE,
          exc |-> "Attestation extension not found in leaf certificate",
          att |-> AttestationDict(NoneInt, NoneBytes), keys |-> {}]
    ELSE IF cert.ext.state # "ok"
    THEN [raised |-> TRUE, exc |-> "PyAsn1Error",
          att |-> AttestationDict(NoneInt, NoneBytes), keys |-> {}]
    ELSE [raised |-> FALSE, exc |-> "",
          att |-> AttestationDict(SomeInt(cert.ext.level), SomeBytes(cert.ext.challenge)),
          keys |-> KeyDescriptionKeys]

----------------------------------------------------------------------------
(* features.py: the features of an edit log.  An op is a dict; its "t" is  *)
(* a string or absent, its "p" a dict of numbers or absent.  The areas,     *)
(* times and adjustments of the logs enumerated are whole numbers, and the *)
(* floats holding their sums are written as integers.  The share of the    *)
(* image a crop keeps is a quotient: it is kept exact, as a fraction.      *)

MaxOps == 3
MaxRuleOps == 3

\* features.py:20
BUCKETS == {"transform", "adjust", "filter", "overlay", "privacy_blur", "compose"}

\* The values op.get("t") takes: absent, three bucket names, a name outside
\* the buckets.
OpTypes == {NoneStr, SomeStr("compose"), SomeStr("overlay"), SomeStr("filter"),
            SomeStr("sticker")}

\* op.get("p", {}) of features.py:110: the keys featurize reads, each present
\* or absent; crop is the rect [x, y, w, h], of which w and h are used.
Params(area_pct_avg, area_pct, time_pct, crop, brightness, contrast, saturation) ==
    [area_pct_avg |-> area_pct_avg, area_pct |-> area_pct, time_pct |-> time_pct,
     crop |-> crop, brightness |-> brightness, contrast |-> contrast,
     saturation |-> saturation]
NoCrop == [some |-> FALSE, cw |-> 0, ch |-> 0]
Crop(cw, ch) == [some |-> TRUE, cw |-> cw, ch |-> ch]
NoParams == Params(NoneInt, NoneInt, NoneInt, NoCrop, NoneInt, NoneInt, NoneInt)
OpWith(t, p) == [t |-> t, p |-> p]
Op(t) == OpWith(t, NoParams)

\* log["provenance"] (features.py:88-89) and the width and height of
\* log["meta"] (features.py:46-47) and of log["media"] (features.py:49-50).
Provenance(c2pa_present, signed) == [c2pa_present |-> c2pa_present, signed |-> signed]
NoProvenance == Provenance(NoneBool, NoneBool)
NoDims == [some |-> FALSE, w |-> 0, h |-> 0]
Dims(w, h) == [some |-> TRUE, w |-> w, h |-> h]

\* The "ops" entry of a log: absent, a value that is not a list, or a list.
EditLogWith(kind, items, provenance, meta, media) ==
    [ops |-> [kind |-> kind, items |-> items], provenance |-> provenance,
     meta |-> meta, media |-> media]
EditLog(kind, items) == EditLogWith(kind, items, NoProvenance, NoDims, NoDims)
NoLog == EditLog("missing", <<>>)
EditLogs ==
    {EditLog("missing", <<>>), EditLog("notlist", <<>>)} \cup
    {EditLog("list", items) :
        items \in UNION {[1..n -> {Op(t) : t \in OpTypes}] : n \in 0..MaxOps}}

\* features.py:35-38
_ops(log) == IF log.ops.kind = "list" THEN log.ops.items ELSE <<>>

\* features.py:80-85, counts per bucket
BucketCounts(log) ==
    [b \in BUCKETS |->
        Cardinality({i \in DOMAIN _ops(log) : _ops(log)[i].t = SomeStr(b)})]

\* Mutant of OverlayAfterCompose: last_t is updated only for an op whose type
\* is a bucket name.
RECURSIVE OverlayAfterCompose_SkipsUnknown(_, _, _)
OverlayAfterCompose_SkipsUnknown(ops, last_t, flag) ==
    IF ops = <<>>
    THEN flag
    ELSE LET t == Head(ops).t
         IN  OverlayAfterCompose_SkipsUnknown(
                 Tail(ops),
                 IF t.some /\ t.v \in BUCKETS THEN t ELSE last_t,
                 IF last_t = SomeStr("compose") /\ t = SomeStr("overlay") THEN 1 ELSE flag)

\* features.py:159-164, the loop over the ops: the flag after the ops left to
\* visit, last_t being the type of the op visited before them.
RECURSIVE OverlayAfterCompose(_, _, _)
OverlayAfterCompose(ops, last_t, flag) ==
    IF ops = <<>>
    THEN flag
    ELSE LET t == Head(ops).t
         IN  OverlayAfterCompose(
                 Tail(ops), t,
                 IF last_t = SomeStr("compose") /\ t = SomeStr("overlay") THEN 1 ELSE flag)

\* features.py:41-53: the dimensions of log["meta"] when both are positive
\* integers, otherwise those of log["media"] when both are, otherwise None
_media_dims(log) ==
    IF log.meta.some /\ log.meta.w > 0 /\ log.meta.h > 0 THEN log.meta
    ELSE IF log.media.some /\ log.media.w > 0 /\ log.media.h > 0 THEN log.media
    ELSE NoDims

\* features.py:56-66
_clamp01(x) == IF x < 0 THEN 0 ELSE IF x > 100 THEN 100 ELSE x

Abs(x) == IF x < 0 THEN -x ELSE x
\* dict.get(key, 0) of an absent key
OrZero(field) == IF field.some THEN field.v ELSE 0

\* features.py:113, p.get("area_pct_avg", p.get("area_pct", 0.0))
Area(p) ==
    IF p.area_pct_avg.some THEN p.area_pct_avg.v
    ELSE IF p.area_pct.some THEN p.area_pct.v
    ELSE 0

\* A Python float (IEEE 754 binary64) that is zero or a positive normal
\* number: bits is the 53-bit significand, most significant bit first and
\* equal to 1, and the value is 1.b2...b53 * 2^exp. The crop shares stay far
\* from the subnormal and the overflow range.
MantissaBits == 53
Zeros(n) == [i \in 1..n |-> 0]
FloatZero == [zero |-> TRUE, exp |-> 0, bits |-> Zeros(MantissaBits)]
Float(exp, bits) == [zero |-> FALSE, exp |-> exp, bits |-> bits]

\* Binary addition of the bit strings A and B over the positions lo..hi with
\* a carry in: the carry out, then the bits of the sum. The right half is
\* added first and hands its carry to the left half.
RECURSIVE AddBits(_, _, _, _, _)
AddBits(A, B, lo, hi, carry) ==
    IF lo > hi THEN <<carry>>
    ELSE IF lo = hi
    THEN LET s == A[lo] + B[lo] + carry
         IN  <<s \div 2, s % 2>>
    ELSE LET mid == (lo + hi) \div 2
             right == AddBits(A, B, mid + 1, hi, carry)
             left == IF right[1] = 1 THEN AddBits(A, B, lo, mid, 1)
                     ELSE AddBits(A, B, lo, mid, 0)
         IN  left \o Tail(right)

\* The bit string one unit in the last place above a bit string that is not
\* all ones: a bit flips when every bit after it is 1.
Increment(bits) ==
    [i \in 1..Len(bits) |->
        IF \A j \in (i + 1)..Len(bits) : bits[j] = 1 THEN 1 - bits[i] ELSE bits[i]]

\* Rounding to nearest, ties to even, of the exact value 1.w2w3... * 2^exp,
\* followed by a non-zero tail when sticky: the rounding every float
\* operation of the code ends with.
RoundToEven(exp, wide, sticky) ==
    LET kept == SubSeq(wide, 1, MantissaBits)
        guard == IF Len(wide) > MantissaBits THEN wide[MantissaBits + 1] ELSE 0
        rest == sticky \/ \E i \in (MantissaBits + 2)..Len(wide) : wide[i] = 1
        up == guard = 1 /\ (rest \/ kept[MantissaBits] = 1)
    IN  IF ~up THEN Float(exp, kept)
        ELSE IF \A i \in 1..MantissaBits : kept[i] = 1
        THEN Float(exp + 1, [i \in 1..MantissaBits |-> IF i = 1 THEN 1 ELSE 0])
        ELSE Float(exp, Increment(kept))

\* The k binary digits of r / d after the point (r < d < 2^22), and the
\* remainder left after them: long division, up to eight digits in one step,
\* more as the first half of the digits and then, from their remainder, the
\* second half.
RECURSIVE QuotientBits(_, _, _)
QuotientBits(r, d, k) ==
    IF k <= 8
    THEN LET scaled == r * 2 ^ k
             q == scaled \div d
         IN  [bits |-> [i \in 1..k |-> (q \div 2 ^ (k - i)) % 2], r |-> scaled % d]
    ELSE LET first == QuotientBits(r, d, k \div 2)
             rest == QuotientBits(first.r, d, k - k \div 2)
         IN  [bits |-> first.bits \o rest.bits, r |-> rest.r]

\* The e with 2^e <= n / d < 2^(e + 1), for positive n and d below 2^22.
Exponent(n, d) ==
    IF n >= d
    THEN CHOOSE k \in 0..29 : n \div 2 ^ k >= d /\ n \div 2 ^ (k + 1) < d
    ELSE 0 - (CHOOSE k \in 1..30 :
                  n <= (d - 1) \div 2 ^ (k - 1) /\ n > (d - 1) \div 2 ^ k)

\* The float nearest to n / d, for d <= n < 2 * d
Quotient(e, n, d) ==
    LET q == QuotientBits(n - d, d, MantissaBits)
    IN  RoundToEven(e, <<1>> \o q.bits, q.r # 0)

\* float(n) / float(d) for integers n >= 0 and d > 0 that floats hold exactly
FloatDiv(n, d) ==
    IF n = 0 THEN FloatZero
    ELSE LET e == Exponent(n, d)
         IN  IF e < 0 THEN Quotient(e, n * 2 ^ (0 - e), d)
             ELSE Quotient(e, n, d * 2 ^ e)

\* a + b of two floats
FloatAdd(a, b) ==
    IF a.zero THEN b
    ELSE IF b.zero THEN a
    ELSE LET hi == IF a.exp >= b.exp THEN a ELSE b
             lo == IF a.exp >= b.exp THEN b ELSE a
             shift == hi.exp - lo.exp
             width == MantissaBits + shift
             sum == AddBits(hi.bits \o Zeros(shift), Zeros(shift) \o lo.bits, 1, width, 0)
         IN  IF sum[1] = 1 THEN RoundToEven(hi.exp + 1, sum, FALSE)
             ELSE RoundToEven(hi.exp, SubSeq(sum, 2, width + 1), FALSE)

\* a > b of two floats
FloatGreater(a, b) ==
    IF a.zero THEN FALSE
    ELSE IF b.zero THEN TRUE
    ELSE IF a.exp # b.exp THEN a.exp > b.exp
    ELSE LET differ == {i \in 1..MantissaBits : a.bits[i] # b.bits[i]}
         IN  differ # {} /\ a.bits[CHOOSE i \in differ : \A j \in differ : i <= j] = 1

\* serve.py:68, the 60 that total_crop_area_pct is compared with
CropThreshold == FloatDiv(60, 1)

\* features.py:124-129, 100.0 * (float(cw) * float(ch)) / float(img_area): the
\* share of the image one crop keeps, in percent. The product is an integer a
\* float holds exactly; the division rounds.
CropAreaPct(p, dims) ==
    IF p.crop.some /\ dims.some /\ p.crop.cw > 0 /\ p.crop.ch > 0
    THEN FloatDiv(100 * (p.crop.cw * p.crop.ch), dims.w * dims.h)
    ELSE FloatZero

\* features.py:133-136
AdjustMag(p) == Abs(OrZero(p.brightness)) + Abs(OrZero(p.contrast)) + Abs(OrZero(p.saturation))

\* features.py:94-102, the accumulators before the loop
NoTotals ==
    [total_crop_area_pct |-> FloatZero, total_adjust_mag |-> 0, total_blur_area_pct |-> 0,
     total_compose_area_pct |-> 0, total_blur_time_pct |-> 0,
     total_compose_time_pct |-> 0, max_compose_area_pct |-> 0]

\* features.py:108-144, one pass of the loop body
Accumulate(acc, op, dims) ==
    LET area == Area(op.p)
        timep == _clamp01(OrZero(op.p.time_pct))
    IN  CASE op.t = SomeStr("transform") ->
                 [acc EXCEPT !.total_crop_area_pct = FloatAdd(@, CropAreaPct(op.p, dims))]
          [] op.t = SomeStr("adjust") ->
                 [acc EXCEPT !.total_adjust_mag = @ + AdjustMag(op.p)]
          [] op.t = SomeStr("privacy_blur") ->
                 [acc EXCEPT !.total_blur_area_pct = @ + area,
                             !.total_blur_time_pct = @ + timep]
          [] op.t = SomeStr("compose") ->
                 [acc EXCEPT !.total_compose_area_pct = @ + area,
                             !.total_compose_time_pct = @ + timep,
                             !.max_compose_area_pct = IF area > @ THEN area ELSE @]
          [] OTHER -> acc

\* features.py:108-144, the loop
RECURSIVE Totals(_, _, _)
Totals(ops, dims, acc) ==
    IF ops = <<>>
    THEN acc
    ELSE Totals(Tail(ops), dims, Accumulate(acc, Head(ops), dims))

\* features.py:88-89, `1.0 if _get(log, "provenance", key, default=False) else 0.0`
Flag(field) == IF field.some /\ field.v THEN 1 ELSE 0

\* features.py:71-166; the logs enumerated carry neither
\* provenance.actions_count nor export.quality, whose features are the defaults.
featurize(log) ==
    LET totals == Totals(_ops(log), _media_dims(log), NoTotals)
    IN  [n |-> BucketCounts(log),
         c2pa_present |-> Flag(log.provenance.c2pa_present),
         signed |-> Flag(log.provenance.signed),
         actions_count |-> 0,
         jpeg_quality |-> 90,
         total_crop_area_pct |-> totals.total_crop_area_pct,
         total_adjust_mag |-> totals.total_adjust_mag,
         total_blur_area_pct |-> totals.total_blur_area_pct,
         total_compose_area_pct |-> totals.total_compose_area_pct,
         total_blur_time_pct |-> totals.total_blur_time_pct,
         total_compose_time_pct |-> totals.total_compose_time_pct,
         max_compose_area_pct |-> totals.max_compose_area_pct,
         overlay_after_compose |-> OverlayAfterCompose(_ops(log), NoneStr, 0)]

Returned(feats) == [returned |-> TRUE, feats |-> feats]
NoFeatures == [returned |-> FALSE, feats |-> featurize(NoLog)]

----------------------------------------------------------------------------
(* serve.py: the interpretable rules.                                      *)

\* serve.py:52-82: the points before they are bounded below, rule by rule
RulePoints(f) ==
    (IF f.n["compose"] > 0 THEN 3 ELSE 0)
    + (IF f.total_compose_area_pct >= 10 \/ f.max_compose_area_pct >= 15 THEN 2 ELSE 0)
    + (IF f.total_compose_time_pct >= 25 THEN 2 ELSE 0)
    + (IF FloatGreater(f.total_crop_area_pct, CropThreshold) THEN 1 ELSE 0)
    + (IF f.total_adjust_mag > 120 THEN 1 ELSE 0)
    - (IF f.n["compose"] = 0 /\ f.total_blur_area_pct > 0 THEN 1 ELSE 0)
    - (IF f.c2pa_present # 0 /\ f.signed # 0 THEN 1 ELSE 0)

\* serve.py:52-82: the reasons appended, in the order of the rules
RuleReasons(f) ==
    (IF f.n["compose"] > 0
     THEN <<"Has composition edits (splice/inpaint/bg replace)">> ELSE <<>>)
    \o (IF f.total_compose_area_pct >= 10 \/ f.max_compose_area_pct >= 15
        THEN <<"Large composed region">> ELSE <<>>)
    \o (IF f.total_compose_time_pct >= 25
        THEN <<"Composition affects large portion of duration">> ELSE <<>>)
    \o (IF FloatGreater(f.total_crop_area_pct, CropThreshold) THEN <<"Aggressive cropping">> ELSE <<>>)
    \o (IF f.total_adjust_mag > 120 THEN <<"Extreme global adjustments">> ELSE <<>>)
    \o (IF f.n["compose"] = 0 /\ f.total_blur_area_pct > 0
        THEN <<"Privacy blur detected (no composition)">> ELSE <<>>)
    \o (IF f.c2pa_present # 0 /\ f.signed # 0
        THEN <<"Signed provenance present">> ELSE <<>>)

RuleScore(pts, reasons) == [returned |-> TRUE, pts |-> pts, reasons |-> reasons]
NoRuleScore == [returned |-> FALSE, pts |-> 0, reasons |-> <<>>]

\* Mutant of _rule_score_and_reasons: the points are returned as summed,
\* without `pts = max(0, pts)`.
_rule_score_and_reasons_NoFloor(log) ==
    RuleScore(RulePoints(featurize(log)), RuleReasons(featurize(log)))

\* serve.py:43-89
_rule_score_and_reasons(log) ==
    LET f == featurize(log)
        pts == RulePoints(f)
    IN  RuleScore(IF pts > 0 THEN pts ELSE 0, RuleReasons(f))

\* The ops of the logs given to the rules: for each rule, ops on either side
\* of its threshold.
RuleOps ==
    {OpWith(SomeStr("compose"), NoParams),
     OpWith(SomeStr("compose"),
            Params(NoneInt, SomeInt(10), NoneInt, NoCrop, NoneInt, NoneInt, NoneInt)),
     OpWith(SomeStr("compose"),
            Params(SomeInt(15), SomeInt(5), SomeInt(25), NoCrop, NoneInt, NoneInt, NoneInt)),
     OpWith(SomeStr("compose"),
            Params(NoneInt, SomeInt(5), SomeInt(130), NoCrop, NoneInt, NoneInt, NoneInt)),
     OpWith(SomeStr("transform"),
            Params(NoneInt, NoneInt, NoneInt, Crop(2, 1), NoneInt, NoneInt, NoneInt)),
     OpWith(SomeStr("transform"),
            Params(NoneInt, NoneInt, NoneInt, Crop(5, 1), NoneInt, NoneInt, NoneInt)),
     OpWith(SomeStr("adjust"),
            Params(NoneInt, NoneInt, NoneInt, NoCrop, SomeInt(-130), NoneInt, NoneInt)),
     OpWith(SomeStr("adjust"),
            Params(NoneInt, NoneInt, NoneInt, NoCrop, SomeInt(70), SomeInt(-50), NoneInt)),
     OpWith(SomeStr("privacy_blur"),
            Params(NoneInt, SomeInt(20), SomeInt(40), NoCrop, NoneInt, NoneInt, NoneInt)),
     OpWith(SomeStr("privacy_blur"),
            Params(NoneInt, SomeInt(-5), NoneInt, NoCrop, NoneInt, NoneInt, NoneInt)),
     OpWith(SomeStr("overlay"), NoParams),
     OpWith(NoneStr, NoParams)}
RuleProvenances ==
    {NoProvenance, Provenance(SomeBool(TRUE), SomeBool(TRUE)),
     Provenance(SomeBool(TRUE), SomeBool(FALSE)), Provenance(NoneBool, SomeBool(TRUE))}
RuleLogs ==
    {EditLogWith("list", items, prov, dims[1], dims[2]) :
        items \in UNION {[1..n -> RuleOps] : n \in 0..MaxRuleOps},
        prov \in RuleProvenances,
        dims \in {<<NoDims, NoDims>>, <<Dims(5, 3), Dims(2, 2)>>, <<NoDims, Dims(2, 2)>>}}
    \cup {EditLogWith(kind, <<>>, prov, NoDims, NoDims) :
              kind \in {"missing", "notlist"}, prov \in RuleProvenances}

----------------------------------------------------------------------------
(* verify_endpoint (main.py:16-77).                                        *)

NoVerdict ==
    [status |-> 0, ok |-> FALSE, detail |-> "", cause |-> "", unhandled |-> FALSE,
     level |-> NoneInt]
\* raise HTTPException(status_code, detail=f"<detail>: {cause}"): the fixed part
\* of the detail and the text interpolated into it.
HTTPExceptionFrom(status, detail, cause) ==
    [status |-> status, ok |-> FALSE, detail |-> detail, cause |-> cause,
     unhandled |-> FALSE, level |-> NoneInt]
\* raise HTTPException(status_code, detail) with a fixed detail
HTTPException(status, detail) == HTTPExceptionFrom(status, detail, "")
\* an exception no handler catches: the framework answers 500 and goes on serving
Unhandled(exc) ==
    [status |-> 500, ok |-> FALSE, detail |-> exc, cause |-> "", unhandled |-> TRUE,
     level |-> NoneInt]
\* main.py:77
Verified(att) ==
    [status |-> 200, ok |-> TRUE, detail |-> "verified", cause |-> "",
     unhandled |-> FALSE, level |-> att.attestationSecurityLevel]

\* json.loads(payload_canonical), main.py:26: the parsed claim fields
payload_obj(req) ==
    [content_hash_b64 |-> req.payload_canonical.content_hash_b64,
     nonce_b64 |-> req.payload_canonical.nonce_b64,
     app_id |-> req.payload_canonical.app_id]

\* main.py:23-30, "parse inputs"
DecodeInputs(req) ==
    IF req.payload_canonical.json = "invalid"
    THEN HTTPExceptionFrom(400, "invalid payload_canonical", "JSONDecodeError")
    ELSE IF req.sig_b64.form = "badpad"
    THEN Unhandled("binascii.Error: sig_b64")
    ELSE IF req.sig_b64.form = "nonascii"
    THEN Unhandled("ValueError: sig_b64")
    ELSE NoVerdict

\* main.py:20, `x5c_der_b64: str = Form(...)`: the one string the framework binds
\* to the parameter.  A field sent once is that string.  A field repeated in the
\* form (test/test_backend.py:15-18 sends one field per certificate) is bound
\* to a single one of its values, a bare base64 string, which json.loads
\* (main.py:33) does not accept.
X5cParameter(req) ==
    IF req.x5c_der_b64.json = "repeated"
    THEN [json |-> "invalid", items |-> <<>>]
    ELSE req.x5c_der_b64

\* Mutant of LoadChain: the emptiness test sits inside the try block, whose
\* handler turns its HTTPException into the "invalid x5c_der_b64" answer.
LoadChain_EmptyCheckInsideTry(req) ==
    IF X5cParameter(req).json = "invalid"
    THEN HTTPExceptionFrom(400, "invalid x5c_der_b64", "JSONDecodeError")
    ELSE LET loaded == load_cert_chain_from_b64_list(X5cParameter(req).items)
         IN  IF loaded.raised
             THEN HTTPExceptionFrom(400, "invalid x5c_der_b64", loaded.exc)
             ELSE IF Len(loaded.certs) = 0
             THEN HTTPExceptionFrom(400, "invalid x5c_der_b64", "HTTPException")
             ELSE IF PublicKeyRaises(loaded.certs[1])
             THEN Unhandled("UnsupportedAlgorithm: public_key")
             ELSE NoVerdict

\* main.py:32-42
LoadChain(req) ==
    IF X5cParameter(req).json = "invalid"
    THEN HTTPExceptionFrom(400, "invalid x5c_der_b64", "JSONDecodeError")
    ELSE LET loaded == load_cert_chain_from_b64_list(X5cParameter(req).items)
         IN  IF loaded.raised
             THEN HTTPExceptionFrom(400, "invalid x5c_der_b64", loaded.exc)
             ELSE IF Len(loaded.certs) = 0
             THEN HTTPException(400, "empty certificate chain")
             ELSE IF PublicKeyRaises(loaded.certs[1])
             THEN Unhandled("UnsupportedAlgorithm: public_key")
             ELSE NoVerdict

certs(req) == load_cert_chain_from_b64_list(X5cParameter(req).items).certs

\* main.py:45-46
MediaRequired(req) ==
    IF ~req.media.some
    THEN HTTPException(400, "media file required")
    ELSE NoVerdict

\* Mutant of BindContentHash: the digest is computed but never compared.
BindContentHash_NoCompare(req) ==
    IF req.payload_canonical.json # "object"
    THEN Unhandled("AttributeError: payload_obj.get")
    ELSE IF ~Truthy(payload_obj(req).content_hash_b64)
    THEN HTTPException(400, "payload missing content_hash_b64")
    ELSE IF decode_b64(payload_obj(req).content_hash_b64).exc = "binascii.Error"
    THEN Unhandled("binascii.Error: content_hash_b64")
    ELSE IF decode_b64(payload_obj(req).content_hash_b64).exc = "ValueError"
    THEN Unhandled("ValueError: content_hash_b64")
    ELSE NoVerdict

\* main.py:48-55
BindContentHash(req) ==
    LET media_hash == sha256_bytes(req.media.v)
    IN  IF req.payload_canonical.json # "object"
        THEN Unhandled("AttributeError: payload_obj.get")
        ELSE LET content_hash_b64 == payload_obj(req).content_hash_b64
             IN  IF ~Truthy(content_hash_b64)
                 THEN HTTPException(400, "payload missing content_hash_b64")
                 ELSE LET claimed == decode_b64(content_hash_b64)
                      IN  IF claimed.exc = "binascii.Error"
                          THEN Unhandled("binascii.Error: content_hash_b64")
                          ELSE IF claimed.exc = "ValueError"
                          THEN Unhandled("ValueError: content_hash_b64")
                          ELSE IF media_hash # claimed.v
                          THEN HTTPException(400, "media hash mismatch with payload.content_hash_b64")
                          ELSE NoVerdict

\* Mutant of VerifySignature: the bytes verified are those of the parsed object
\* serialized again (json.dumps lays the text out with spaces after the
\* separators), not those of the submitted text.
VerifySignature_Reserialized(req) ==
    IF ~verify_signature_with_pubkey(public_key(certs(req)[1]),
                                     Utf8([req.payload_canonical EXCEPT !.layout = "spaced"]),
                                     req.sig_b64.sig)
    THEN HTTPException(400, "signature verification failed")
    ELSE NoVerdict

\* main.py:57-60
VerifySignature(req) ==
    IF ~verify_signature_with_pubkey(public_key(certs(req)[1]),
                                     Utf8(req.payload_canonical), req.sig_b64.sig)
    THEN HTTPException(400, "signature verification failed")
    ELSE NoVerdict

\* main.py:62-65
ValidateChain(req, file) ==
    LET r == validate_chain_against_roots(certs(req), file)
    IN  IF r.raised THEN Unhandled(r.exc)
        ELSE IF ~r.ok
        THEN HTTPExceptionFrom(400, "certificate chain validation failed", r.msg)
        ELSE NoVerdict

\* main.py:67-71
ParseAttestation(req) ==
    LET r == extract_key_description_from_cert(certs(req)[1])
    IN  IF r.raised
        THEN HTTPExceptionFrom(400, "failed to parse attestation extension", r.exc)
        ELSE NoVerdict

\* main.py:73-77
EnforcePolicy(req, cfg) ==
    LET att == extract_key_description_from_cert(certs(req)[1]).att
        p == enforce_policy(att, payload_obj(req), cfg)
    IN  IF p.raised /\ p.msg = "binascii.Error"
        THEN Unhandled("binascii.Error: nonce_b64")
        ELSE IF p.raised THEN Unhandled("ValueError: nonce_b64")
        ELSE IF ~p.ok THEN HTTPExceptionFrom(403, "policy failed", p.msg)
        ELSE Verified(att)

Outcome(v, s) == [verdict |-> v, steps |-> s]

\* main.py:23-47: the handler from its entry to `await media.read()`.  A result
\* with verdict NoVerdict is the handler suspended at the await.
RunToAwait(req) ==
    LET d == DecodeInputs(req)
    IN  IF d # NoVerdict THEN Outcome(d, <<"decode">>)
        ELSE LET c == LoadChain(req)
             IN  IF c # NoVerdict THEN Outcome(c, <<"decode", "load_chain">>)
                 ELSE Outcome(MediaRequired(req), <<"decode", "load_chain", "bind_hash">>)

\* Mutant of RunFromAwait: the signature is verified before the content hash
\* is bound.
RunFromAwait_SignatureFirst(req, cfg, file) ==
    LET s == VerifySignature(req)
    IN  IF s # NoVerdict THEN Outcome(s, <<"verify_signature">>)
        ELSE LET h == BindContentHash(req)
        IN  IF h # NoVerdict THEN Outcome(h, <<"verify_signature">>)
        ELSE LET c == ValidateChain(req, file)
        IN  IF c # NoVerdict THEN Outcome(c, <<"verify_signature", "validate_chain">>)
        ELSE LET a == ParseAttestation(req)
        IN  IF a # NoVerdict
            THEN Outcome(a, <<"verify_signature", "validate_chain", "parse_attestation">>)
            ELSE Outcome(EnforcePolicy(req, cfg),
                         <<"verify_signature", "validate_chain", "parse_attestation",
                           "enforce_policy">>)

\* main.py:48-77: the handler from the await to its return
RunFromAwait(req, cfg, file) ==
    LET h == BindContentHash(req)
    IN  IF h # NoVerdict THEN Outcome(h, <<>>)
        ELSE LET s == VerifySignature(req)
        IN  IF s # NoVerdict THEN Outcome(s, <<"verify_signature">>)
        ELSE LET c == ValidateChain(req, file)
        IN  IF c # NoVerdict THEN Outcome(c, <<"verify_signature", "validate_chain">>)
        ELSE LET a == ParseAttestation(req)
        IN  IF a # NoVerdict
            THEN Outcome(a, <<"verify_signature", "validate_chain", "parse_attestation">>)
            ELSE Outcome(EnforcePolicy(req, cfg),
                         <<"verify_signature", "validate_chain", "parse_attestation",
                           "enforce_policy">>)

----------------------------------------------------------------------------
(* The inputs the model draws from.                                        *)

AppId == "com.example.app"
AppIdOtherCase == "com.example.APP"
Media1 == <<1, 2, 3>>
Media2 == <<1, 2, 4>>
NonceBytes == {<<>>} \cup {<<n>> : n \in 1..MaxNonce}

Root1 == Certificate("R1", "R1", TRUE, "EC", NoExtension)
Root2 == Certificate("R2", "R2", TRUE, "EC", NoExtension)
Inter1 == Certificate("I1", "R1", TRUE, "EC", NoExtension)
Inter2 == Certificate("I2", "R2", TRUE, "EC", NoExtension)

\* A request is described field by field; WellFormed is the request of the
\* repository's happy path (spec section 8, end-to-end scenario, with a nonce).
WellFormed ==
    [pj |-> "object", ch |-> "match", nn |-> "match", app |-> "match",
     sig |-> "good", x5c |-> "full", alg |-> "EC", ext |-> "ok",
     lvl |-> 1, chal |-> <<1>>, media |-> "m1"]

Attributes == DOMAIN WellFormed

Options(a) ==
    CASE a = "pj"    -> {"object", "invalid", "array"}
      [] a = "ch"    -> {"match", "absent", "empty", "badpad", "other", "junk", "nonascii"}
      [] a = "nn"    -> {"match", "absent", "empty", "badpad", "other", "junk", "nonascii"}
      [] a = "app"   -> {"match", "absent", "case"}
      [] a = "sig"   -> {"good", "junk", "badpad", "nonascii", "relayout", "otherkey"}
      [] a = "x5c"   -> {"full", "noroot", "leafonly", "untrusted", "strayroot",
                         "forged", "invalid", "empty", "badb64", "nonascii", "badder",
                         "repeated"}
      [] a = "alg"   -> {"EC", "RSA", "Ed25519", "unsupported"}
      [] a = "ext"   -> {"ok", "missing", "malformed"}
      [] a = "lvl"   -> 0..MaxLevel
      [] a = "chal"  -> NonceBytes
      [] a = "media" -> {"m1", "m2", "none"}

\* The descriptions that differ from WellFormed in at most k fields.
RECURSIVE Deviating(_)
Deviating(k) ==
    IF k = 0
    THEN {WellFormed}
    ELSE LET prev == Deviating(k - 1)
         IN  prev \cup UNION {UNION {{[d EXCEPT ![a] = v] : v \in Options(a)} :
                                        a \in Attributes} : d \in prev}

\* The text of payload_canonical: whether it is JSON and of which kind, how it is
\* laid out (two layouts parse to the same object), and the claim fields.
ContentHashField(d) ==
    CASE d.ch = "match"  -> B64Text("canon", sha256_bytes(Media1))
      [] d.ch = "junk"   -> B64Text("junk", sha256_bytes(Media1))
      [] d.ch = "other"  -> B64Text("canon", sha256_bytes(Media2))
      [] d.ch = "empty"  -> EmptyText
      [] d.ch = "badpad" -> BadPadText
      [] d.ch = "nonascii" -> NonAsciiText
      [] d.ch = "absent" -> AbsentField

NonceField(d) ==
    CASE d.nn = "match"  -> B64Text("canon", <<1>>)
      [] d.nn = "junk"   -> B64Text("junk", <<1>>)
      [] d.nn = "other"  -> B64Text("canon", <<2>>)
      [] d.nn = "empty"  -> EmptyText
      [] d.nn = "badpad" -> BadPadText
      [] d.nn = "nonascii" -> NonAsciiText
      [] d.nn = "absent" -> AbsentField

AppIdField(d) ==
    CASE d.app = "match"  -> SomeStr(AppId)
      [] d.app = "case"   -> SomeStr(AppIdOtherCase)
      [] d.app = "absent" -> NoneStr

PayloadText(d) ==
    [json |-> d.pj, layout |-> "compact", content_hash_b64 |-> ContentHashField(d),
     nonce_b64 |-> NonceField(d), app_id |-> AppIdField(d)]

Extension(d) ==
    CASE d.ext = "ok"        -> KeyDescriptionExt(d.lvl, d.chal)
      [] d.ext = "missing"   -> NoExtension
      [] d.ext = "malformed" -> BadExtension

Leaf(d) ==
    Certificate("leaf", IF d.x5c = "untrusted" THEN "I2" ELSE "I1",
                d.x5c # "forged", d.alg, Extension(d))

Der(cert) == X5cEntry("canon", TRUE, cert)

X5cText(d) ==
    CASE d.x5c \in {"full", "forged"} ->
             [json |-> "array", items |-> <<Der(Leaf(d)), Der(Inter1), Der(Root1)>>]
      [] d.x5c = "noroot" ->
             [json |-> "array", items |-> <<Der(Leaf(d)), Der(Inter1)>>]
      [] d.x5c = "leafonly" ->
             [json |-> "array", items |-> <<Der(Leaf(d))>>]
      [] d.x5c = "untrusted" ->
             [json |-> "array", items |-> <<Der(Leaf(d)), Der(Inter2), Der(Root2)>>]
      [] d.x5c = "strayroot" ->
             [json |-> "array", items |-> <<Der(Leaf(d)), Der(Inter1), Der(Root2)>>]
      [] d.x5c = "invalid" ->
             [json |-> "invalid", items |-> <<>>]
      [] d.x5c = "repeated" ->
             [json |-> "repeated", items |-> <<Der(Leaf(d)), Der(Inter1), Der(Root1)>>]
      [] d.x5c = "empty" ->
             [json |-> "array", items |-> <<>>]
      [] d.x5c = "badb64" ->
             [json |-> "array", items |-> <<Der(Leaf(d)), X5cEntry("badpad", FALSE, Inter1)>>]
      [] d.x5c = "nonascii" ->
             [json |-> "array", items |-> <<X5cEntry("nonascii", TRUE, Leaf(d)), Der(Inter1)>>]
      [] d.x5c = "badder" ->
             [json |-> "array", items |-> <<X5cEntry("canon", FALSE, Leaf(d)), Der(Inter1)>>]

SigText(d) ==
    CASE d.sig = "good" ->
             [form |-> "canon", sig |-> Signature("leaf", Utf8(PayloadText(d)))]
      [] d.sig = "junk" ->
             [form |-> "junk", sig |-> Signature("leaf", Utf8(PayloadText(d)))]
      [] d.sig = "badpad" ->
             [form |-> "badpad", sig |-> Signature("", Utf8(PayloadText(d)))]
      [] d.sig = "nonascii" ->
             [form |-> "nonascii", sig |-> Signature("leaf", Utf8(PayloadText(d)))]
      [] d.sig = "relayout" ->
             [form |-> "canon",
              sig |-> Signature("leaf", Utf8([PayloadText(d) EXCEPT !.layout = "spaced"]))]
      [] d.sig = "otherkey" ->
             [form |-> "canon", sig |-> Signature("attacker", Utf8(PayloadText(d)))]

MediaUpload(d) ==
    CASE d.media = "m1"   -> SomeBytes(Media1)
      [] d.media = "m2"   -> SomeBytes(Media2)
      [] d.media = "none" -> NoneBytes

\* The form fields of POST /verify, main.py:17-22
Request(d) ==
    [payload_canonical |-> PayloadText(d), sig_b64 |-> SigText(d),
     x5c_der_b64 |-> X5cText(d), media |-> MediaUpload(d)]

Requests == {Request(d) : d \in Deviating(MaxDeviations)}

\* The requests of the concurrent specification: the well-formed one and one
\* deviation in each of four fields.
ConcurrentRequests ==
    {Request(d) : d \in {WellFormed,
                         [WellFormed EXCEPT !.x5c = "untrusted"],
                         [WellFormed EXCEPT !.sig = "badpad"],
                         [WellFormed EXCEPT !.media = "m2"],
                         [WellFormed EXCEPT !.pj = "invalid"]}}

NoRequest == Request([WellFormed EXCEPT !.pj = "invalid", !.x5c = "invalid",
                                        !.media = "none"])

\* config.yaml as main.py:12 loads it
Config(flag, app, patch) ==
    [require_hardware_backed |-> flag, expected_app_id |-> app, min_patch_level |-> patch]
DefaultConfig == Config(SomeBool(TRUE), SomeStr(AppId), NoneInt)
ServerConfigs ==
    {DefaultConfig,
     Config(SomeBool(FALSE), SomeStr(AppId), NoneInt),
     Config(NoneBool, NoneStr, NoneInt),
     Config(SomeBool(TRUE), SomeStr(AppId), SomeInt(1))}

TrustFiles ==
    {MissingFile, NotJsonFile, PemListFile(<<>>), PemListFile(<<Pem("R1")>>),
     PemListFile(<<Pem("R1"), BadPem>>), PemListFile(<<Pem("R1"), Pem("R2")>>)}

\* The arguments of a direct call of enforce_policy.
PolicyAttestations ==
    {AttestationDict(l, c) :
        l \in {NoneInt} \cup {SomeInt(n) : n \in 0..MaxLevel},
        c \in {NoneBytes} \cup {SomeBytes(b) : b \in NonceBytes}}
PolicyNonceFields ==
    {AbsentField, BadPadText, NonAsciiText} \cup
    {B64Text(f, b) : f \in {"canon", "junk"}, b \in NonceBytes}
PolicyAppIds == {NoneStr, SomeStr(AppId), SomeStr(AppIdOtherCase)}
PolicyPayloads ==
    {[content_hash_b64 |-> B64Text("canon", sha256_bytes(Media1)),
      nonce_b64 |-> n, app_id |-> a] : n \in PolicyNonceFields, a \in PolicyAppIds}
PolicyConfigs ==
    {Config(f, a, p) : f \in {NoneBool, SomeBool(TRUE), SomeBool(FALSE)},
                       a \in PolicyAppIds,
                       p \in {NoneInt, SomeInt(0), SomeInt(1)}}
PolicyCall(att, payload, cfg) == [att |-> att, payload |-> payload, config |-> cfg]
NoCall == PolicyCall(AttestationDict(NoneInt, NoneBytes),
                     [content_hash_b64 |-> AbsentField, nonce_b64 |-> AbsentField,
                      app_id |-> NoneStr],
                     Config(NoneBool, NoneStr, NoneInt))
NoPolicyResult == [raised |-> FALSE, ok |-> FALSE, msg |-> ""]

----------------------------------------------------------------------------
(* The server: one handler per request, suspended once at its await.       *)

Slots == DOMAIN pc

\* One of the offered requests arrives and verify_endpoint runs to its await
\* (main.py:23-47).
Begin(s, offered) ==
    /\ pc[s] = "idle"
    /\ \E req \in offered :
          LET r == RunToAwait(req)
          IN  /\ input' = [input EXCEPT ![s] = req]
              /\ steps' = [steps EXCEPT ![s] = r.steps]
              /\ verdict' = [verdict EXCEPT ![s] = r.verdict]
              /\ pc' = [pc EXCEPT ![s] = IF r.verdict = NoVerdict THEN "await_media"
                                                                   ELSE "done"]
    /\ UNCHANGED <<config, trustStore, polIn, polOut, featIn, featOut, ruleOut,
                   extIn, extOut>>

\* media.read() completes and verify_endpoint runs to its end (main.py:48-77).
Resume(s) ==
    /\ pc[s] = "await_media"
    /\ LET r == RunFromAwait(input[s], config, trustStore)
       IN  /\ steps' = [steps EXCEPT ![s] = steps[s] \o r.steps]
           /\ verdict' = [verdict EXCEPT ![s] = r.verdict]
           /\ pc' = [pc EXCEPT ![s] = "done"]
    /\ UNCHANGED <<config, trustStore, input, polIn, polOut, featIn, featOut, ruleOut,
                   extIn, extOut>>

\* The response is sent; the slot serves the next request.
Respond(s) ==
    /\ pc[s] = "done"
    /\ pc' = [pc EXCEPT ![s] = "idle"]
    /\ input' = [input EXCEPT ![s] = NoRequest]
    /\ steps' = [steps EXCEPT ![s] = <<>>]
    /\ verdict' = [verdict EXCEPT ![s] = NoVerdict]
    /\ UNCHANGED <<config, trustStore, polIn, polOut, featIn, featOut, ruleOut,
                   extIn, extOut>>

\* The environment replaces, removes or restores the trust-store file.
WriteTrustStore(file) ==
    /\ file # trustStore
    /\ trustStore' = file
    /\ UNCHANGED <<config, pc, input, steps, verdict, polIn, polOut, featIn, featOut, ruleOut,
                   extIn, extOut>>

\* enforce_policy called on its own.
CallEnforcePolicy ==
    /\ polOut = NoPolicyResult
    /\ polIn # NoCall
    /\ polOut' = enforce_policy(polIn.att, polIn.payload, polIn.config)
    /\ UNCHANGED <<config, trustStore, pc, input, steps, verdict, polIn, featIn, featOut, ruleOut,
                   extIn, extOut>>

\* The certificates given to extract_key_description_from_cert, and the value
\* of extOut before the call returns.
ExtractCertificates ==
    {Certificate(id, issuer, TRUE, alg, ext) :
        id \in {"leaf", "I1"}, issuer \in {"I1", "R1"}, alg \in {"EC", "RSA", "Ed25519"},
        ext \in {NoExtension, BadExtension} \cup
                {KeyDescriptionExt(l, c) : l \in 0..MaxLevel, c \in NonceBytes}}
NoExtraction ==
    [returned |-> FALSE, result |-> extract_key_description_from_cert(Root1)]

InitSlots(n) ==
    /\ config \in ServerConfigs
    /\ trustStore \in TrustFiles
    /\ pc = [s \in 1..n |-> "idle"]
    /\ input = [s \in 1..n |-> NoRequest]
    /\ steps = [s \in 1..n |-> <<>>]
    /\ verdict = [s \in 1..n |-> NoVerdict]
    /\ polIn = NoCall
    /\ polOut = NoPolicyResult
    /\ featIn = NoLog
    /\ featOut = NoFeatures
    /\ ruleOut = NoRuleScore
    /\ extIn = Root1
    /\ extOut = NoExtraction

\* One request at a time, every request of Requests.
Init == InitSlots(1)
Next ==
    \/ \E s \in Slots : Begin(s, Requests)
    \/ \E s \in Slots : Resume(s)
    \/ \E s \in Slots : Respond(s)
    \/ \E file \in TrustFiles : WriteTrustStore(file)
Spec == Init /\ [][Next]_vars

\* MaxInFlight requests interleaved at their awaits.
InitConcurrent == InitSlots(MaxInFlight)
NextConcurrent ==
    \/ \E s \in Slots : Begin(s, ConcurrentRequests)
    \/ \E s \in Slots : Resume(s)
    \/ \E s \in Slots : Respond(s)
    \/ \E file \in TrustFiles : WriteTrustStore(file)
SpecConcurrent == InitConcurrent /\ [][NextConcurrent]_vars

\* enforce_policy as a function of its three arguments.
InitPolicy ==
    /\ config = DefaultConfig
    /\ trustStore = MissingFile
    /\ pc = [s \in 1..1 |-> "idle"]
    /\ input = [s \in 1..1 |-> NoRequest]
    /\ steps = [s \in 1..1 |-> <<>>]
    /\ verdict = [s \in 1..1 |-> NoVerdict]
    /\ polIn \in {PolicyCall(a, p, c) :
                     a \in PolicyAttestations, p \in PolicyPayloads, c \in PolicyConfigs}
    /\ polOut = NoPolicyResult
    /\ featIn = NoLog
    /\ featOut = NoFeatures
    /\ ruleOut = NoRuleScore
    /\ extIn = Root1
    /\ extOut = NoExtraction
NextPolicy == CallEnforcePolicy
SpecPolicy == InitPolicy /\ [][NextPolicy]_vars

\* One call of featurize.
CallFeaturize ==
    /\ ~featOut.returned
    /\ featOut' = Returned(featurize(featIn))
    /\ UNCHANGED <<config, trustStore, pc, input, steps, verdict, polIn, polOut, featIn, ruleOut,
                   extIn, extOut>>

\* featurize as a function of the edit log.
InitFeatures ==
    /\ config = DefaultConfig
    /\ trustStore = MissingFile
    /\ pc = [s \in 1..1 |-> "idle"]
    /\ input = [s \in 1..1 |-> NoRequest]
    /\ steps = [s \in 1..1 |-> <<>>]
    /\ verdict = [s \in 1..1 |-> NoVerdict]
    /\ polIn = NoCall
    /\ polOut = NoPolicyResult
    /\ featIn \in EditLogs
    /\ featOut = NoFeatures
    /\ ruleOut = NoRuleScore
    /\ extIn = Root1
    /\ extOut = NoExtraction
NextFeatures == CallFeaturize
SpecFeatures == InitFeatures /\ [][NextFeatures]_vars

\* One call of extract_key_description_from_cert.
CallExtract ==
    /\ ~extOut.returned
    /\ extOut' = [returned |-> TRUE, result |-> extract_key_description_from_cert(extIn)]
    /\ UNCHANGED <<config, trustStore, pc, input, steps, verdict, polIn, polOut,
                   featIn, featOut, ruleOut, extIn>>

\* extract_key_description_from_cert as a function of the certificate.
InitAttestation ==
    /\ config = DefaultConfig
    /\ trustStore = MissingFile
    /\ pc = [s \in 1..1 |-> "idle"]
    /\ input = [s \in 1..1 |-> NoRequest]
    /\ steps = [s \in 1..1 |-> <<>>]
    /\ verdict = [s \in 1..1 |-> NoVerdict]
    /\ polIn = NoCall
    /\ polOut = NoPolicyResult
    /\ featIn = NoLog
    /\ featOut = NoFeatures
    /\ ruleOut = NoRuleScore
    /\ extIn \in ExtractCertificates
    /\ extOut = NoExtraction
NextAttestation == CallExtract
SpecAttestation == InitAttestation /\ [][NextAttestation]_vars

\* One call of _rule_score_and_reasons.
CallRuleScore ==
    /\ ~ruleOut.returned
    /\ ruleOut' = _rule_score_and_reasons(featIn)
    /\ UNCHANGED <<config, trustStore, pc, input, steps, verdict, polIn, polOut,
                   featIn, featOut,
                   extIn, extOut>>

\* _rule_score_and_reasons as a function of the edit log.
InitRules ==
    /\ config = DefaultConfig
    /\ trustStore = MissingFile
    /\ pc = [s \in 1..1 |-> "idle"]
    /\ input = [s \in 1..1 |-> NoRequest]
    /\ steps = [s \in 1..1 |-> <<>>]
    /\ verdict = [s \in 1..1 |-> NoVerdict]
    /\ polIn = NoCall
    /\ polOut = NoPolicyResult
    /\ featIn \in RuleLogs
    /\ featOut = NoFeatures
    /\ ruleOut = NoRuleScore
    /\ extIn = Root1
    /\ extOut = NoExtraction
NextRules == CallRuleScore
SpecRules == InitRules /\ [][NextRules]_vars

----------------------------------------------------------------------------
(* Properties.                                                             *)

\* The order of the checks, spec section 4.7.
StageOrder ==
    <<"decode", "load_chain", "bind_hash", "verify_signature", "validate_chain",
      "parse_attestation", "enforce_policy">>

\* The verdict of one check taken alone: NoVerdict when the check passes.
StageVerdict(stage, req, cfg, file) ==
    CASE stage = "decode"            -> DecodeInputs(req)
      [] stage = "load_chain"        -> LoadChain(req)
      [] stage = "bind_hash"         -> IF MediaRequired(req) # NoVerdict
                                        THEN MediaRequired(req)
                                        ELSE BindContentHash(req)
      [] stage = "verify_signature"  -> VerifySignature(req)
      [] stage = "validate_chain"    -> ValidateChain(req, file)
      [] stage = "parse_attestation" -> ParseAttestation(req)
      [] stage = "enforce_policy"    -> EnforcePolicy(req, cfg)

\* Slot s ends its request in this step.
Decides(s) == pc[s] # "done" /\ pc'[s] = "done"

\* The checks entered are a prefix of StageOrder, every check before the last
\* one entered passed, the verdict is the last one's, and the handler stopped
\* before the end only on a failure.
InOrder(req, entered, v, cfg, file) ==
    LET n == Len(entered)
    IN  /\ n \in 1..Len(StageOrder)
        /\ entered = SubSeq(StageOrder, 1, n)
        /\ \A i \in 1..(n - 1) : StageVerdict(StageOrder[i], req, cfg, file) = NoVerdict
        /\ v = StageVerdict(StageOrder[n], req, cfg, file)
        /\ v # NoVerdict
        /\ (n < Len(StageOrder) => ~v.ok)

\* C1: verify_endpoint runs its checks in the order decode, load chain, bind
\* content hash, verify signature, validate chain, parse attestation, enforce
\* policy; it stops at the first check that fails, runs no later check, and
\* reports the failure of the earliest failing check.
C1_ChecksInOrder ==
    [][\A s \in Slots :
          Decides(s) => InOrder(input'[s], steps'[s], verdict'[s], config, trustStore)]_vars

\* C1 witness: a request that fails two checks (no certificate, no media) was
\* decided by the earlier one.
C1_Witness ==
    \E s \in Slots :
        /\ pc[s] = "done"
        /\ verdict[s].detail = "empty certificate chain"
        /\ steps[s] = <<"decode", "load_chain">>
        /\ MediaRequired(input[s]) # NoVerdict

\* What each step establishes, stated on the request itself.
ChainLoaded(req) ==
    /\ req.x5c_der_b64.json = "array"
    /\ Len(req.x5c_der_b64.items) > 0
    /\ \A i \in 1..Len(req.x5c_der_b64.items) :
          ~B64Raises(req.x5c_der_b64.items[i].form) /\ req.x5c_der_b64.items[i].parses
LeafOf(req) == req.x5c_der_b64.items[1].cert
DigestMatches(req) ==
    /\ req.media.some
    /\ req.payload_canonical.json = "object"
    /\ req.payload_canonical.content_hash_b64.kind = "str"
    /\ ~B64Raises(req.payload_canonical.content_hash_b64.form)
    /\ req.payload_canonical.content_hash_b64.of = sha256_bytes(req.media.v)
SignatureValid(req) ==
    /\ LeafOf(req).alg \in {"EC", "RSA"}
    /\ ~B64Raises(req.sig_b64.form)
    /\ req.sig_b64.sig = Signature(LeafOf(req).id, Utf8(req.payload_canonical))
ChainAnchored(req, file) ==
    /\ ~load_trust_roots(file).raised
    /\ PathToRoot(LeafOf(req), {req.x5c_der_b64.items[i].cert :
                                   i \in 2..Len(req.x5c_der_b64.items)},
                  load_trust_roots(file).roots, Len(req.x5c_der_b64.items))

HashMismatch == HTTPException(400, "media hash mismatch with payload.content_hash_b64")

\* The handler has the media bytes and the payload holds a string under
\* content_hash_b64 that base64-decodes to something else than their digest.
ClaimedHashDiffers(req) ==
    /\ req.payload_canonical.json = "object"
    /\ req.payload_canonical.content_hash_b64.kind = "str"
    /\ ~decode_b64(req.payload_canonical.content_hash_b64).raised
    /\ decode_b64(req.payload_canonical.content_hash_b64).v # sha256_bytes(req.media.v)

\* C3 as stated: whenever the chain loaded, the payload carries content_hash_b64
\* and the media digest differs from the decoded claimed hash, the verdict is the
\* content-hash mismatch and the signature is not verified.
C3_AsStated ==
    [][\A s \in Slots :
          (pc[s] = "await_media" /\ Decides(s) /\ ClaimedHashDiffers(input[s])) =>
              /\ verdict'[s] = HashMismatch
              /\ steps'[s] = <<"decode", "load_chain", "bind_hash">>]_vars

\* C3 amended: the same, for a content_hash_b64 that is not the empty string
\* (an empty string is answered "payload missing content_hash_b64").
C3_MismatchRejected ==
    [][\A s \in Slots :
          (/\ pc[s] = "await_media"
           /\ Decides(s)
           /\ ClaimedHashDiffers(input[s])
           /\ input[s].payload_canonical.content_hash_b64 # EmptyText) =>
              /\ verdict'[s] = HashMismatch
              /\ steps'[s] = <<"decode", "load_chain", "bind_hash">>]_vars

\* C3 witness: a mismatch was reported for a request whose signature is not
\* valid either.
C3_Witness ==
    \E s \in Slots :
        /\ pc[s] = "done"
        /\ verdict[s] = HashMismatch
        /\ ClaimedHashDiffers(input[s])
        /\ ~SignatureValid(input[s])

HardwareRequired ==
    PolicyReturn(FALSE, "Not hardware backed (attestationSecurityLevel indicates software)")

\* C4: with require_hardware_backed set, enforce_policy answers "not hardware
\* backed" for every record of level 0, whatever the payload and the rest of the
\* configuration, and never answers it for a record of level 1 or 2.
C4_HardwareRule ==
    (polOut # NoPolicyResult /\ polIn.config.require_hardware_backed = SomeBool(TRUE)) =>
        /\ polIn.att.attestationSecurityLevel = SomeInt(0) => polOut = HardwareRequired
        /\ polIn.att.attestationSecurityLevel \in {SomeInt(1), SomeInt(2)} =>
               polOut # HardwareRequired

\* C4 witness: a level-0 record was refused although nonce and app_id match.
C4_Witness ==
    /\ polOut = HardwareRequired
    /\ polIn.config.require_hardware_backed = SomeBool(TRUE)
    /\ polIn.att.attestationSecurityLevel = SomeInt(0)
    /\ ~ChallengeRule(polIn.att, polIn.payload).raised
    /\ ~ChallengeRule(polIn.att, polIn.payload).fails
    /\ Truthy(polIn.payload.nonce_b64)
    /\ ~AppIdRuleFails(polIn.payload, polIn.config)

ChallengeMismatch ==
    PolicyReturn(FALSE, "attestation challenge does not match payload nonce")

\* C5 as stated: whenever the payload supplies nonce_b64, the hardware rule
\* passes and the decoded nonce differs from the record's attestationChallenge,
\* enforce_policy answers the challenge mismatch; without nonce_b64 it never
\* answers it.
C5_AsStated ==
    (polOut # NoPolicyResult /\ ~HardwareRuleFails(polIn.att, polIn.config)) =>
        /\ (/\ polIn.payload.nonce_b64.kind = "str"
            /\ polIn.att.attestationChallenge.some
            /\ ~decode_b64(polIn.payload.nonce_b64).raised
            /\ decode_b64(polIn.payload.nonce_b64).v # polIn.att.attestationChallenge.v)
               => polOut = ChallengeMismatch
        /\ polIn.payload.nonce_b64.kind = "absent" => polOut # ChallengeMismatch

AppIdMismatch ==
    PolicyReturn(FALSE, "payload.app_id does not match expected app id")

\* C6 as stated: enforce_policy succeeds only if payload.app_id is present and
\* equal to expected_app_id; a payload whose app_id differs, the earlier rules
\* passing, is answered the app-id mismatch.
C6_AsStated ==
    polOut # NoPolicyResult =>
        /\ polOut.ok =>
              /\ polIn.payload.app_id.some
              /\ polIn.payload.app_id = polIn.config.expected_app_id
        /\ (/\ polIn.payload.app_id # polIn.config.expected_app_id
            /\ ~HardwareRuleFails(polIn.att, polIn.config)
            /\ ~ChallengeRule(polIn.att, polIn.payload).raised
            /\ ~ChallengeRule(polIn.att, polIn.payload).fails)
               => polOut = AppIdMismatch

\* The certificates of the request are listed leaf first, each followed by its
\* issuer (the CertificateChain of spec section 3).
IssuerOrdered(req) ==
    \A i \in 1..(Len(req.x5c_der_b64.items) - 1) :
        req.x5c_der_b64.items[i].cert.issuer = req.x5c_der_b64.items[i + 1].cert.id

\* The last certificate of the request is a trust anchor of the file, or is
\* signed by one.
FinalCertificateAnchored(req, file) ==
    LET last == req.x5c_der_b64.items[Len(req.x5c_der_b64.items)].cert
        roots == load_trust_roots(file).roots
    IN  last.id \in roots \/ (last.linkok /\ last.issuer \in roots)

ChainValidationFailed ==
    HTTPExceptionFrom(400, "certificate chain validation failed", "chain validation failed")

\* C7 as stated: a request that reaches chain validation with a chain whose
\* final certificate is neither a trust anchor nor signed by one is answered
\* "certificate chain validation failed", and neither the attestation parser
\* nor the policy engine runs for it.
C7_AsStated ==
    [][\A s \in Slots :
          (/\ pc[s] = "await_media"
           /\ Decides(s)
           /\ BindContentHash(input[s]) = NoVerdict
           /\ VerifySignature(input[s]) = NoVerdict
           /\ IssuerOrdered(input[s])
           /\ ~FinalCertificateAnchored(input[s], trustStore)) =>
              /\ verdict'[s] = ChainValidationFailed
              /\ steps'[s] = SubSeq(StageOrder, 1, 5)]_vars

\* A base64 or JSON field of the request is malformed.
MalformedFields(req) ==
    {f \in {"payload_canonical", "sig_b64", "x5c_der_b64", "content_hash_b64", "nonce_b64"} :
        CASE f = "payload_canonical" -> req.payload_canonical.json = "invalid"
          [] f = "sig_b64"           -> B64Raises(req.sig_b64.form)
          [] f = "x5c_der_b64"       ->
                \/ req.x5c_der_b64.json = "invalid"
                \/ \E i \in 1..Len(req.x5c_der_b64.items) :
                      \/ B64Raises(req.x5c_der_b64.items[i].form)
                      \/ ~req.x5c_der_b64.items[i].parses
          [] f = "content_hash_b64"  ->
                B64Raises(req.payload_canonical.content_hash_b64.form)
          [] f = "nonce_b64"         -> B64Raises(req.payload_canonical.nonce_b64.form)}

\* C8 as stated: no request with a malformed base64, JSON or DER input ends in
\* an unhandled exception.
C8_AsStated ==
    \A s \in Slots :
        (pc[s] = "done" /\ MalformedFields(input[s]) # {}) =>
            ~(verdict[s].unhandled /\ verdict[s].detail \in
                 {"binascii.Error: sig_b64", "binascii.Error: content_hash_b64",
                  "binascii.Error: nonce_b64", "ValueError: sig_b64",
                  "ValueError: content_hash_b64", "ValueError: nonce_b64"})

\* C9 as stated: within one process the verdict depends only on the request
\* (the anchors and the policy being those of startup): two requests with the
\* same inputs have the same verdict.
C9_AsStated ==
    \A s \in Slots, t \in Slots :
        (pc[s] = "done" /\ pc[t] = "done" /\ input[s] = input[t]) =>
            verdict[s] = verdict[t]

\* C10 as stated: no request receives a verdict while the trust store does not
\* load completely.
C10_AsStated ==
    [][\A s \in Slots : Decides(s) => ~load_trust_roots(trustStore).raised]_vars

PolicyOk == PolicyReturn(TRUE, "policy OK")

\* C11 as stated: with min_patch_level configured, a payload and record that
\* pass the other rules are not answered the plain success a configuration
\* without min_patch_level gets: the answer tells the two apart.
C11_AsStated ==
    (/\ polOut # NoPolicyResult
     /\ polIn.config.min_patch_level.some
     /\ enforce_policy(polIn.att, polIn.payload,
                       [polIn.config EXCEPT !.min_patch_level = NoneInt]) = PolicyOk)
        => polOut # PolicyOk

SignatureInvalid == HTTPException(400, "signature verification failed")

\* C12 as stated: a request whose leaf key is neither EC nor RSA is rejected,
\* and its verdict is not the one of an invalid signature.
C12_AsStated ==
    \A s \in Slots :
        (/\ pc[s] = "done"
         /\ ChainLoaded(input[s])
         /\ LeafOf(input[s]).alg \notin {"EC", "RSA"}) =>
            /\ ~verdict[s].ok
            /\ verdict[s] # SignatureInvalid

AttestationExtensionMissing ==
    HTTPExceptionFrom(400, "failed to parse attestation extension",
                      "Attestation extension not found in leaf certificate")
AttestationParseFailed ==
    HTTPExceptionFrom(400, "failed to parse attestation extension", "PyAsn1Error")

\* C13 as stated: a request whose hash, signature and chain pass and whose leaf
\* has no attestation extension is answered with the missing-extension failure,
\* one whose extension does not decode with the parse failure, and these are
\* two different answers.
C13_AsStated ==
    [][\A s \in Slots :
          (/\ pc[s] = "await_media"
           /\ Decides(s)
           /\ ChainLoaded(input[s])
           /\ DigestMatches(input[s])
           /\ SignatureValid(input[s])
           /\ ChainAnchored(input[s], trustStore)) =>
              /\ LeafOf(input[s]).ext.state = "missing"
                    => verdict'[s] = AttestationExtensionMissing
              /\ LeafOf(input[s]).ext.state = "malformed"
                    => verdict'[s] = AttestationParseFailed
              /\ AttestationExtensionMissing # AttestationParseFailed]_vars

\* The policy rules as spec section 4.5 words them, over the arguments of
\* enforce_policy: (a) a hardware-backed level when the flag is set or absent,
\* (b) a supplied nonce decodes to the attested challenge, (c) app_id equals
\* the expected one.
HardwareRuleViolated(att, cfg) ==
    /\ cfg.require_hardware_backed # SomeBool(FALSE)
    /\ att.attestationSecurityLevel \in {NoneInt, SomeInt(0)}
NonceRuleViolated(att, payload) ==
    /\ payload.nonce_b64.kind = "str"
    /\ ~decode_b64(payload.nonce_b64).raised
    /\ att.attestationChallenge # SomeBytes(decode_b64(payload.nonce_b64).v)
AppIdRuleViolated(payload, cfg) == payload.app_id # cfg.expected_app_id

\* C14 as stated: enforce_policy answers the first violated rule in the order
\* hardware, nonce, app_id (a software-level record is the hardware failure
\* whatever else mismatches; a nonce mismatch comes before an app_id mismatch),
\* and succeeds only if no rule is violated.
C14_AsStated ==
    polOut # NoPolicyResult =>
        LET hw == HardwareRuleViolated(polIn.att, polIn.config)
            nonce == NonceRuleViolated(polIn.att, polIn.payload)
            app == AppIdRuleViolated(polIn.payload, polIn.config)
        IN  /\ hw => polOut = HardwareRequired
            /\ (~hw /\ nonce) => polOut = ChallengeMismatch
            /\ (~hw /\ ~nonce /\ app /\ ~polOut.raised) => polOut = AppIdMismatch
            /\ polOut.ok => (~hw /\ ~nonce /\ ~app)

EmptyChain == HTTPException(400, "empty certificate chain")

\* The x5c_der_b64 field is a JSON array without entries.
EmptyCertificateList(req) ==
    req.x5c_der_b64.json = "array" /\ req.x5c_der_b64.items = <<>>

\* C15: a request whose certificate list is empty never gets past the chain
\* loader: once its fields are decoded it is answered "empty certificate chain"
\* at once, without waiting for the media, and neither the hash comparison nor
\* the signature check nor any later check is ever entered for it.
C15_EmptyChainRejected ==
    \A s \in Slots :
        (pc[s] # "idle" /\ EmptyCertificateList(input[s])) =>
            /\ pc[s] # "await_media"
            /\ \A i \in 1..Len(steps[s]) : steps[s][i] \in {"decode", "load_chain"}
            /\ ~verdict[s].ok
            /\ DecodeInputs(input[s]) = NoVerdict =>
                  verdict[s] = EmptyChain /\ steps[s] = <<"decode", "load_chain">>
            /\ DecodeInputs(input[s]) # NoVerdict => verdict[s] = DecodeInputs(input[s])

\* C15 witness: a request with an empty certificate list whose payload, media,
\* hash and signature are those of the well-formed request was answered
\* "empty certificate chain".
C15_Witness ==
    \E s \in Slots :
        /\ pc[s] = "done"
        /\ EmptyCertificateList(input[s])
        /\ input[s] = Request([WellFormed EXCEPT !.x5c = "empty"])
        /\ verdict[s] = EmptyChain

\* C16 as stated: for every certificate whose attestation extension parses, the
\* record extract_key_description_from_cert returns exposes the keys
\* attestationSecurityLevel, keymasterSecurityLevel and attestationChallenge.
C16_AsStated ==
    (extOut.returned /\ ~extOut.result.raised) =>
        {"attestationSecurityLevel", "keymasterSecurityLevel", "attestationChallenge"}
            \subseteq extOut.result.keys

\* C17: the signature check of a request that reaches it is decided on the
\* UTF-8 bytes of payload_canonical as submitted: a signature of the leaf key
\* over exactly those bytes passes, and a signature over anything else, the
\* same JSON object laid out differently included, is answered "signature
\* verification failed".
C17_SignedBytesAsSubmitted ==
    \A s \in Slots :
        (pc[s] = "done" /\ Len(steps[s]) >= 4) =>
            LET submitted == Utf8(input[s].payload_canonical)
                sig == input[s].sig_b64.sig
                leaf == LeafOf(input[s])
            IN  /\ (sig = Signature(leaf.id, submitted) /\ leaf.alg \in {"EC", "RSA"})
                      => (verdict[s] # SignatureInvalid /\ Len(steps[s]) > 4)
                /\ sig.over # submitted
                      => (verdict[s] = SignatureInvalid /\ Len(steps[s]) = 4)

\* C17 witness: a signature by the leaf key over the payload object laid out
\* differently from the submitted text was rejected.
C17_Witness ==
    \E s \in Slots :
        /\ pc[s] = "done"
        /\ Len(steps[s]) = 4
        /\ input[s].sig_b64.sig =
              Signature(LeafOf(input[s]).id,
                        Utf8([input[s].payload_canonical EXCEPT !.layout = "spaced"]))
        /\ input[s].payload_canonical.layout = "compact"
        /\ verdict[s] = SignatureInvalid

\* The same certificates submitted as one JSON array.
AsJsonArray(req) == [req EXCEPT !.x5c_der_b64.json = "array"]

\* C18 as stated: a request that submits its chain as repeated x5c_der_b64
\* fields is loaded as the same ordered chain, with the same leaf, as the request
\* submitting the same certificates as one JSON array, and the chain loader
\* answers both alike.
C18_AsStated ==
    \A s \in Slots :
        (pc[s] # "idle" /\ input[s].x5c_der_b64.json = "repeated") =>
            /\ certs(input[s]) = certs(AsJsonArray(input[s]))
            /\ LoadChain(input[s]) = LoadChain(AsJsonArray(input[s]))

\* C19: a configuration without require_hardware_backed is treated as one that
\* sets it, and under a set or absent flag a record without
\* attestationSecurityLevel is answered "not hardware backed" like a record of
\* level 0: it never passes.
C19_FailsClosedOnMissingData ==
    polOut # NoPolicyResult =>
        /\ polIn.config.require_hardware_backed = NoneBool =>
              /\ polOut = enforce_policy(polIn.att, polIn.payload,
                              [polIn.config EXCEPT !.require_hardware_backed = SomeBool(TRUE)])
              /\ polIn.att.attestationSecurityLevel = SomeInt(0) => polOut = HardwareRequired
        /\ (/\ polIn.config.require_hardware_backed # SomeBool(FALSE)
            /\ polIn.att.attestationSecurityLevel = NoneInt)
               => (polOut = HardwareRequired /\ ~polOut.ok)

\* C19 witness: with the flag absent from the configuration, a record without a
\* security level was refused although its challenge and app_id match.
C19_Witness ==
    /\ polOut = HardwareRequired
    /\ polIn.config.require_hardware_backed = NoneBool
    /\ polIn.att.attestationSecurityLevel = NoneInt
    /\ ~NonceRuleViolated(polIn.att, polIn.payload)
    /\ polIn.payload.nonce_b64.kind = "str"
    /\ ~AppIdRuleViolated(polIn.payload, polIn.config)

\* The ops list of the log holds a compose immediately followed by an overlay.
ComposeThenOverlay(log) ==
    /\ log.ops.kind = "list"
    /\ \E i \in 1..(Len(log.ops.items) - 1) :
          /\ log.ops.items[i].t = SomeStr("compose")
          /\ log.ops.items[i + 1].t = SomeStr("overlay")

\* C20: featurize returns overlay_after_compose = 1.0 exactly for the logs
\* whose ops list holds two consecutive entries of types compose and overlay,
\* in that order, and 0.0 for every other log: ops empty, absent or not a list,
\* or an op of another type between the compose and the overlay.
C20_OverlayAfterCompose ==
    featOut.returned =>
        featOut.feats.overlay_after_compose =
            IF ComposeThenOverlay(featIn) THEN 1 ELSE 0

\* C20 witness: the log compose, other op, overlay was given the flag 0.0.
C20_Witness ==
    /\ featOut.returned
    /\ featIn.ops.kind = "list"
    /\ Len(featIn.ops.items) = 3
    /\ featIn.ops.items[1].t = SomeStr("compose")
    /\ featIn.ops.items[2].t \notin {SomeStr("compose"), SomeStr("overlay")}
    /\ featIn.ops.items[3].t = SomeStr("overlay")
    /\ featOut.feats.overlay_after_compose = 0

\* The sum of the weights of the rules that add points (3 + 2 + 2 + 1 + 1).
SumOfPositiveWeights == 3 + 2 + 2 + 1 + 1

\* The log is one where both reductions apply and no rule adds points: a
\* privacy blur of positive area, no composition, signed provenance, no heavy
\* crop and no strong adjustment.
OnlyReductionsApply(log) ==
    LET f == featurize(log)
    IN  /\ log.provenance = Provenance(SomeBool(TRUE), SomeBool(TRUE))
        /\ f.n["compose"] = 0
        /\ f.n["privacy_blur"] > 0
        /\ f.total_blur_area_pct > 0
        /\ ~FloatGreater(f.total_crop_area_pct, CropThreshold)
        /\ f.total_adjust_mag <= 120

\* C21: the points _rule_score_and_reasons returns are an integer between 0
\* and the sum of the weights of the point-adding rules, and they are 0 for a
\* log where only the two reductions apply.
C21_RulePointsBounded ==
    ruleOut.returned =>
        /\ ruleOut.pts \in Int
        /\ ruleOut.pts >= 0
        /\ ruleOut.pts <= SumOfPositiveWeights
        /\ OnlyReductionsApply(featIn) => ruleOut.pts = 0

\* C21 witness: a log with a privacy blur, no composition and signed
\* provenance, for which the rules sum to -2, was given 0 points and both
\* reduction reasons.
C21_Witness ==
    /\ ruleOut.returned
    /\ OnlyReductionsApply(featIn)
    /\ RulePoints(featurize(featIn)) = -2
    /\ ruleOut.pts = 0
    /\ ruleOut.reasons =
          <<"Privacy blur detected (no composition)", "Signed provenance present">>

====
